---- MODULE Spec2Model ----
(***************************************************************************)
(* The evdev input back-end (src/src/evdev.rs): hot-plug discovery through *)
(* a udev monitor, a table of open device handles registered with a        *)
(* single-threaded readiness poller, translation of raw records to         *)
(* semantic events, and the Stream::poll multiplexer.                      *)
(*                                                                         *)
(* Spec   : the Stream with its environment (kernel, udev, executor).      *)
(* TSpec  : the event translator applied to bounded raw records.           *)
(***************************************************************************)
EXTENDS Integers, Sequences, FiniteSets, TLC

VARIABLES
    phase,      \* "unbuilt" | "live" | "failed": Stream::new not yet run / Ok / Err
    devices,    \* Stream.devices: DeviceID -> handle id, NoHandle when absent
    buffer,     \* Stream.buffer: VecDeque of events
    rawq,       \* per open device: the kernel client's pending read results
    notes,      \* the udev monitor socket: pending notifications
    ready,      \* PollEvented readiness bit, per source ("udev" or a DeviceID)
    armed,      \* the task is registered to be notified on the source's readiness
    woken,      \* the executor will poll the stream (task notified)
    owner,      \* owner[h]: the DeviceID handle h was opened for (h = 1..Len)
    closes,     \* closes[h]: how many times libc::close ran on handle h
    seeded,     \* the DeviceIDs Stream::new enumerated with a node that opens
    appended,   \* every event ever pushed to the buffer, in push order
    yielded,    \* every event ever returned Ready(Some(_)), in order
    trace,      \* the reads and notifications of the latest poll, in order
    res,        \* the latest poll's result: "None" | "NotReady" | "Ready"
    early,      \* the latest poll returned at the readiness check (line 268)
    preEmpty,   \* the buffer was empty when the latest poll was invoked
    preReady,   \* some source was read-ready when the latest poll was invoked
    preNotes,   \* the monitor's pending notifications when it was invoked
    postDrain,  \* the buffer after both drain passes of the latest poll
    needReads,  \* number of udev.need_read() calls of the latest poll
    nNotes,     \* notifications delivered so far
    nRaw,       \* raw deliveries (a record, or an overrun) so far
    xin,        \* TSpec: the raw records handed to the translator
    xout        \* TSpec: what the translator returned for them

vars == << phase, devices, buffer, rawq, notes, ready, armed, woken, owner,
           closes, seeded, appended, yielded, trace, res, early, preEmpty,
           preReady, preNotes, postDrain, needReads, nNotes, nRaw, xin, xout >>

streamVars == << phase, devices, buffer, rawq, notes, ready, armed, woken,
                 owner, closes, seeded, appended, yielded, trace, res, early,
                 preEmpty, preReady, preNotes, postDrain, needReads, nNotes, nRaw >>

----------------------------------------------------------------------------
(* Bounds *)
MaxInputs == 3      \* notifications and raw deliveries in one behaviour
MaxCode == 1        \* TSpec: codes 0..MaxCode, and the same offsets past REL_CNT
MaxValue == 2       \* TSpec: record values -1..MaxValue

\* the order udev enumerates the devices in
DeviceOrder == << "event0", "event1" >>
Devices == {DeviceOrder[i] : i \in DOMAIN DeviceOrder}
Udev == "udev"
Sources == Devices \cup {Udev}
NoHandle == 0

----------------------------------------------------------------------------
(* platform::linux_event_codes and platform::libevdev::InputEvent *)
REL_CNT == 16       \* linux/input-event-codes.h: REL_MAX + 1
CodeBits == 16      \* InputEvent.code is the kernel's __u16
CodeMod == 2 ^ CodeBits

EventTypes == {"EV_SYN", "EV_KEY", "EV_REL", "EV_ABS", "EV_MSC", "EV_SW"}

InputEvent(ty, code, value) == [type_ |-> ty, code |-> code, value |-> value]

----------------------------------------------------------------------------
(* Event<WindowID, DeviceID>: the variants this back-end constructs *)
DeviceAdded(d) == [t |-> "DeviceAdded", device |-> d]
DeviceRemoved(d) == [t |-> "DeviceRemoved", device |-> d]
RawButtonPress(d, b) == [t |-> "RawButtonPress", device |-> d, button |-> b]
RawButtonRelease(d, b) == [t |-> "RawButtonRelease", device |-> d, button |-> b]
RawMotion(d, a, v) == [t |-> "RawMotion", device |-> d, axis |-> a, value |-> v]

\* Option<T> as a sequence of length 0 or 1
None == << >>
Some(x) == << x >>

----------------------------------------------------------------------------
(* Stream::map_device_event *)

\* a plausible slip: the absolute axis identity without the REL_CNT offset
AbsAxisNoOffset(code) == code

\* line 195: AxisID((codes::REL_CNT + event.code) as u32), the sum in u16
AbsAxis(code) == (REL_CNT + code) % CodeMod

\* line 200: AxisID(event.code as u32)
RelAxis(code) == code

\* a plausible slip: auto-repeat surfaced as one more press
map_key_event_repeat(id, event) ==
    CASE event.value = 0 -> Some(RawButtonPress(id, event.code))
      [] event.value = 1 -> Some(RawButtonRelease(id, event.code))
      [] event.value = 2 -> Some(RawButtonPress(id, event.code))
      [] OTHER -> None

\* lines 178-192
map_key_event(id, event) ==
    CASE event.value = 0 -> Some(RawButtonPress(id, event.code))
      [] event.value = 1 -> Some(RawButtonRelease(id, event.code))
      [] event.value = 2 -> None
      [] OTHER -> None

\* lines 175-215
map_device_event(id, event) ==
    CASE event.type_ = "EV_SYN" -> None
      [] event.type_ = "EV_KEY" -> map_key_event(id, event)
      [] event.type_ = "EV_ABS" ->
            Some(RawMotion(id, AbsAxis(event.code), event.value))
      [] event.type_ = "EV_REL" ->
            Some(RawMotion(id, RelAxis(event.code), event.value))
      [] event.type_ = "EV_MSC" -> None
      [] OTHER -> None

----------------------------------------------------------------------------
(* platform::libevdev::Device::next_event, as the device-node collaborator  *)
(* of the specification describes it: read_next(mode) returns Again,        *)
(* Resync(record) or Record(record).  A pending read result is              *)
(*   "rec"   a record delivered by a normal-mode read,                      *)
(*   "drop"  the kernel's SYN_DROPPED: a normal-mode read reports resync,   *)
(*   "delta" a record of the resynchronisation, read in resync mode.        *)
(* A resync-mode read with no delta at the head reports Again (the          *)
(* resynchronisation is complete).                                          *)
Item(kind, ev) == [kind |-> kind, ev |-> ev]
SynDropped == InputEvent("EV_SYN", 3, 0)

RECURSIVE SkipDeltas(_)
SkipDeltas(q) ==
    IF q # << >> /\ Head(q).kind = "delta" THEN SkipDeltas(Tail(q)) ELSE q

next_event(q, flag) ==
    IF flag = "sync"
    THEN IF q # << >> /\ Head(q).kind = "delta"
         THEN [st |-> "Sync", ev |-> Head(q).ev, rest |-> Tail(q)]
         ELSE [st |-> "Again", ev |-> SynDropped, rest |-> q]
    ELSE LET n == SkipDeltas(q) IN
         IF n = << >> THEN [st |-> "Again", ev |-> SynDropped, rest |-> n]
         ELSE IF Head(n).kind = "drop"
         THEN [st |-> "Sync", ev |-> SynDropped, rest |-> Tail(n)]
         ELSE [st |-> "Success", ev |-> Head(n).ev, rest |-> Tail(n)]

----------------------------------------------------------------------------
(* Stream::poll_device *)

ReadStep(id, flag, r, out) ==
    [k |-> "read", dev |-> id, flag |-> flag, st |-> r.st, ev |-> r.ev,
     out |-> out]

\* lines 221-236: the read loop; flag is set to SYNC on Sync and never reset
RECURSIVE poll_device_loop(_, _, _, _, _)
poll_device_loop(id, q, flag, evs, steps) ==
    LET r == next_event(q, flag) IN
    IF r.st = "Again"
    THEN [q |-> r.rest, evs |-> evs,
          steps |-> Append(steps, ReadStep(id, flag, r, None))]
    ELSE LET x == map_device_event(id, r.ev) IN
         poll_device_loop(id, r.rest,
                          IF r.st = "Sync" THEN "sync" ELSE flag,
                          evs \o x,
                          Append(steps, ReadStep(id, flag, r, x)))

\* a plausible slip: the loop tried again after "no more data"
poll_device_twice(id, q) ==
    LET a == poll_device_loop(id, q, "normal", << >>, << >>)
    IN  poll_device_loop(id, a.q, "normal", a.evs, a.steps)

\* lines 217-237
poll_device(id, q) == poll_device_loop(id, q, "normal", << >>, << >>)

----------------------------------------------------------------------------
(* The part of the Stream and of the kernel that opening and closing touch: *)
(* st = [devices, rawq, ready, armed, owner, closes]                        *)

\* a handle opened by libc::open at line 141, for sysname
alloc_fd(st, sysname) ==
    [st EXCEPT !.owner = Append(@, sysname), !.closes = Append(@, 0)]

\* Drop for Device, lines 62-66: libc::close on the handle's descriptor
drop_device(st, h) == [st EXCEPT !.closes[h] = @ + 1]

\* a plausible slip: the replaced table entry is forgotten, never dropped
insert_device_leak(st, sysname, h) ==
    [st EXCEPT !.devices[sysname] = h,
               !.rawq[sysname] = << >>,
               !.ready[sysname] = FALSE,
               !.armed[sysname] = FALSE]

\* line 153: HashMap::insert; a replaced PollEvented<Device> is dropped.
\* The new PollEvented starts not ready, with no task registered, and the
\* new descriptor's client buffer starts empty.
insert_device(st, sysname, h) ==
    LET old == st.devices[sysname]
        s1 == [st EXCEPT !.devices[sysname] = h,
                         !.rawq[sysname] = << >>,
                         !.ready[sysname] = FALSE,
                         !.armed[sysname] = FALSE]
    IN  IF old = NoHandle THEN s1 ELSE drop_device(s1, old)

\* a plausible slip: the descriptor of a failed attempt left open
open_device_no_close(st, sysname, outcome) ==
    IF outcome = "openfail" THEN [st |-> st, ok |-> FALSE]
    ELSE LET s1 == alloc_fd(st, sysname)
             h == Len(s1.owner)
         IN  IF outcome = "ok"
             THEN [st |-> insert_device(s1, sysname, h), ok |-> TRUE]
             ELSE [st |-> s1, ok |-> FALSE]

\* lines 140-158.  outcome names what the system calls return:
\*   "openfail"  libc::open returns -1
\*   "evdevfail" libevdev::Device::new_from_fd fails (the fd is closed, 147)
\*   "regfail"   PollEvented::new fails (try!, 152; dev is dropped)
\*   "ok"        all succeed
open_device(st, sysname, outcome) ==
    IF outcome = "openfail" THEN [st |-> st, ok |-> FALSE]
    ELSE LET s1 == alloc_fd(st, sysname)
             h == Len(s1.owner)
         IN  IF outcome = "ok"
             THEN [st |-> insert_device(s1, sysname, h), ok |-> TRUE]
             ELSE [st |-> drop_device(s1, h), ok |-> FALSE]

\* a plausible slip: a remove of an unknown device still reports the removal
remove_entry_always(st, sysname) ==
    LET old == st.devices[sysname] IN
    IF old = NoHandle THEN [st |-> st, out |-> Some(DeviceRemoved(sysname))]
    ELSE [st |-> drop_device([st EXCEPT !.devices[sysname] = NoHandle,
                                        !.rawq[sysname] = << >>,
                                        !.ready[sysname] = FALSE,
                                        !.armed[sysname] = FALSE], old),
          out |-> Some(DeviceRemoved(sysname))]

\* a plausible slip: the removed handle is forgotten, never dropped
remove_entry_no_drop(st, sysname) ==
    LET old == st.devices[sysname] IN
    IF old = NoHandle THEN [st |-> st, out |-> None]
    ELSE [st |-> [st EXCEPT !.devices[sysname] = NoHandle,
                            !.rawq[sysname] = << >>,
                            !.ready[sysname] = FALSE,
                            !.armed[sysname] = FALSE],
          out |-> Some(DeviceRemoved(sysname))]

\* a plausible slip: the removal is reported but the entry stays open
remove_entry_keep(st, sysname) ==
    LET old == st.devices[sysname] IN
    IF old = NoHandle THEN [st |-> st, out |-> None]
    ELSE [st |-> st, out |-> Some(DeviceRemoved(sysname))]

\* lines 127-135: HashMap::remove; the removed PollEvented<Device> is dropped
remove_entry(st, sysname) ==
    LET old == st.devices[sysname] IN
    IF old = NoHandle THEN [st |-> st, out |-> None]
    ELSE [st |-> drop_device([st EXCEPT !.devices[sysname] = NoHandle,
                                        !.rawq[sysname] = << >>,
                                        !.ready[sysname] = FALSE,
                                        !.armed[sysname] = FALSE], old),
          out |-> Some(DeviceRemoved(sysname))]

\* udev::Device as the monitor delivers it: action(), sysname(), devnode();
\* node is "none" for no devnode, else the outcome of opening the node
Note(action, dev, node) == [action |-> action, dev |-> dev, node |-> node]

\* lines 108-138
map_udev_event(st, device) ==
    CASE device.action = "add" ->
            IF device.node = "none" THEN [st |-> st, out |-> None]
            ELSE LET r == open_device(st, device.dev, device.node) IN
                 IF r.ok THEN [st |-> r.st,
                               out |-> Some(DeviceAdded(device.dev))]
                 ELSE [st |-> r.st, out |-> None]
      [] device.action = "remove" -> remove_entry(st, device.dev)
      [] OTHER -> [st |-> st, out |-> None]

\* a plausible slip: the enumeration is started but no device is opened
open_existing_devices_skip(st, enum) == st

\* lines 160-173: enum is the enumeration, a sequence of udev devices
RECURSIVE open_existing_devices(_, _)
open_existing_devices(st, enum) ==
    IF enum = << >> THEN st
    ELSE LET device == Head(enum)
             s1 == IF device.node = "none" THEN st
                   ELSE open_device(st, device.dev, device.node).st
         IN  open_existing_devices(s1, Tail(enum))

----------------------------------------------------------------------------
(* tokio_core::reactor::PollEvented, as Stream::poll uses it.  The          *)
(* readiness bit of a source is set when data arrives and stays set until   *)
(* need_read clears it; poll_read on a source that is not ready registers   *)
(* the task for that source (one notification per registration).            *)

\* PollEvented::poll_read returning NotReady: the task is registered
schedule_read(st, src) == [st EXCEPT !.armed[src] = TRUE]

\* a plausible slip: the re-arm of line 290 left out
need_read_omitted(st, src) == st

\* PollEvented::need_read, line 290
need_read(st, src) == [st EXCEPT !.ready[src] = FALSE, !.armed[src] = TRUE]

\* the orders HashMap iteration may visit the open devices in
OpenDevices(devs) == {d \in Devices : devs[d] # NoHandle}
Orders(S) ==
    {o \in [1..Cardinality(S) -> S] : \A i, j \in DOMAIN o : o[i] = o[j] => i = j}

\* line 267: .map(poll_read).all(NotReady) stops at the first ready device
RECURSIVE poll_read_all(_, _)
poll_read_all(st, order) ==
    IF order = << >> THEN [st |-> st, all |-> TRUE]
    ELSE IF st.ready[Head(order)] THEN [st |-> st, all |-> FALSE]
    ELSE poll_read_all(schedule_read(st, Head(order)), Tail(order))

\* a plausible slip: the early return left out
readiness_check_skipped(st, order) == [st |-> st, notReady |-> FALSE]

\* lines 266-269: notReady is the condition of the early return
readiness_check(st, order) ==
    IF st.ready[Udev] THEN [st |-> st, notReady |-> FALSE]
    ELSE LET r == poll_read_all(schedule_read(st, Udev), order) IN
         [st |-> r.st, notReady |-> r.all]

----------------------------------------------------------------------------
(* Stream::poll, the drain passes *)

\* lines 271-273
RECURSIVE drain_devices(_, _, _, _)
drain_devices(st, order, evs, steps) ==
    IF order = << >> THEN [st |-> st, evs |-> evs, steps |-> steps]
    ELSE LET id == Head(order)
             r == poll_device(id, st.rawq[id])
         IN  drain_devices([st EXCEPT !.rawq[id] = r.q], Tail(order),
                           evs \o r.evs, steps \o r.steps)

NoteStep(device, before, after, out) ==
    [k |-> "note", note |-> device, out |-> out,
     devBefore |-> before.devices, devAfter |-> after.devices,
     closesBefore |-> before.closes, closesAfter |-> after.closes]

\* lines 277-286: receive_device until None
RECURSIVE drain_monitor(_, _, _, _)
drain_monitor(st, ns, evs, steps) ==
    IF ns = << >> THEN [st |-> st, evs |-> evs, steps |-> steps]
    ELSE LET r == map_udev_event(st, Head(ns)) IN
         drain_monitor(r.st, Tail(ns), evs \o r.out,
                       Append(steps, NoteStep(Head(ns), st, r.st, r.out)))

\* a plausible slip: the monitor drained before the devices
drain_passes_monitor_first(st, order, ns) ==
    LET m == drain_monitor(st, ns, << >>, << >>)
        o == SelectSeq(order, LAMBDA d : m.st.devices[d] # NoHandle)
    IN  drain_devices(m.st, o, m.evs, m.steps)

\* lines 271-286: the device pass, then the monitor pass
drain_passes(st, order, ns) ==
    LET d == drain_devices(st, order, << >>, << >>)
    IN  drain_monitor(d.st, ns, d.evs, d.steps)

\* a plausible slip: the newest event popped instead of the oldest
pop_back(buf) ==
    [item |-> buf[Len(buf)], rest |-> SubSeq(buf, 1, Len(buf) - 1)]

\* a plausible slip: the head returned but left in the buffer
pop_front_peek(buf) == [item |-> Head(buf), rest |-> buf]

\* line 288: buffer.pop_front() on a non-empty buffer
pop_front(buf) == [item |-> Head(buf), rest |-> Tail(buf)]

----------------------------------------------------------------------------
(* The state machine *)

St == [devices |-> devices, rawq |-> rawq, ready |-> ready, armed |-> armed,
       owner |-> owner, closes |-> closes]

SetSt(st) ==
    /\ devices' = st.devices
    /\ rawq' = st.rawq
    /\ ready' = st.ready
    /\ armed' = st.armed
    /\ owner' = st.owner
    /\ closes' = st.closes

\* inputs of the bounded environment
KeyRecord(value) == InputEvent("EV_KEY", 30, value)
RawRecords == { KeyRecord(1), KeyRecord(0), InputEvent("EV_SYN", 0, 0) }
\* the first device delivers every record; the others only key presses
RecordsOf(d) == IF d = DeviceOrder[1] THEN RawRecords ELSE { KeyRecord(1) }
OpenOutcomes == {"openfail", "evdevfail", "regfail", "ok"}
Nodes == {"none"} \cup OpenOutcomes
Notifications ==
    {Note("add", d, "ok") : d \in Devices}
        \cup {Note("remove", d, "none") : d \in Devices}
        \cup {Note("add", DeviceOrder[1], n) : n \in Nodes}
        \cup {Note("change", DeviceOrder[1], "none")}
Enumerations == [1..Len(DeviceOrder) -> {"absent", "none", "openfail", "ok"}]

TIdle == /\ xin = << >>
         /\ xout = << >>

Init ==
    /\ phase = "unbuilt"
    /\ devices = [d \in Devices |-> NoHandle]
    /\ buffer = << >>
    /\ rawq = [d \in Devices |-> << >>]
    /\ notes = << >>
    /\ ready = [s \in Sources |-> FALSE]
    /\ armed = [s \in Sources |-> FALSE]
    /\ woken = FALSE
    /\ owner = << >>
    /\ closes = << >>
    /\ seeded = {}
    /\ appended = << >>
    /\ yielded = << >>
    /\ trace = << >>
    /\ res = "None"
    /\ early = FALSE
    /\ preEmpty = TRUE
    /\ preReady = FALSE
    /\ preNotes = << >>
    /\ postDrain = << >>
    /\ needReads = 0
    /\ nNotes = 0
    /\ nRaw = 0
    /\ TIdle

obsVars == << appended, yielded, trace, res, early, preEmpty, preReady,
              preNotes, postDrain, needReads >>

\* Stream::new succeeding, lines 92-106; e[i] is what udev enumerates for
\* DeviceOrder[i].  The executor then polls the stream.
New(e) ==
    /\ phase = "unbuilt"
    /\ LET present == SelectSeq([i \in 1..Len(DeviceOrder) |->
                                     Note("add", DeviceOrder[i], e[i])],
                                LAMBDA n : n.node # "absent")
           st == open_existing_devices(St, present)
       IN  /\ SetSt(st)
           /\ seeded' = {DeviceOrder[i] : i \in {j \in DOMAIN e : e[j] = "ok"}}
    /\ phase' = "live"
    /\ woken' = TRUE
    /\ UNCHANGED << buffer, notes, obsVars, nNotes, nRaw, xin, xout >>

\* Stream::new failing at line 93, 94 or 103: no Stream exists
NewFail ==
    /\ phase = "unbuilt"
    /\ phase' = "failed"
    /\ UNCHANGED << devices, buffer, rawq, notes, ready, armed, woken, owner,
                    closes, seeded, obsVars, nNotes, nRaw, xin, xout >>

\* the reactor sees src readable: the bit is set, a registered task notified
Arrive(src) ==
    /\ ready' = [ready EXCEPT ![src] = TRUE]
    /\ armed' = [armed EXCEPT ![src] = FALSE]
    /\ woken' = (woken \/ armed[src])

\* udev delivers a notification
Notify(n) ==
    /\ phase = "live"
    /\ nNotes + nRaw < MaxInputs
    /\ notes' = Append(notes, n)
    /\ nNotes' = nNotes + 1
    /\ Arrive(Udev)
    /\ UNCHANGED << phase, devices, buffer, rawq, owner, closes, seeded,
                    obsVars, nRaw, xin, xout >>

\* the kernel queues a record for an open device
RawInput(d, ev) ==
    /\ phase = "live"
    /\ devices[d] # NoHandle
    /\ nNotes + nRaw < MaxInputs
    /\ ev \in RecordsOf(d)
    /\ rawq' = [rawq EXCEPT ![d] = Append(@, Item("rec", ev))]
    /\ nRaw' = nRaw + 1
    /\ Arrive(d)
    /\ UNCHANGED << phase, devices, buffer, notes, owner, closes, seeded,
                    obsVars, nNotes, xin, xout >>

\* the kernel client buffer of an open device overruns: SYN_DROPPED, then
\* the state difference (a key held down) to be read in resynchronisation mode
Overrun(d) ==
    /\ phase = "live"
    /\ devices[d] # NoHandle
    /\ nNotes + nRaw < MaxInputs
    /\ rawq' = [rawq EXCEPT
                  ![d] = @ \o << Item("drop", SynDropped),
                               Item("delta", KeyRecord(1)) >>]
    /\ nRaw' = nRaw + 1
    /\ Arrive(d)
    /\ UNCHANGED << phase, devices, buffer, notes, owner, closes, seeded,
                    obsVars, nNotes, xin, xout >>

\* the executor polls although no registered source fired
SpuriousWake ==
    /\ phase = "live"
    /\ ~woken
    /\ woken' = TRUE
    /\ UNCHANGED << phase, devices, buffer, rawq, notes, ready, armed, owner,
                    closes, seeded, obsVars, nNotes, nRaw, xin, xout >>

\* Stream::poll, lines 265-295, with the table visited in the given order
Poll(order) ==
    /\ phase = "live"
    /\ woken
    /\ preEmpty' = (buffer = << >>)
    /\ preReady' = \E s \in {Udev} \cup OpenDevices(devices) : ready[s]
    /\ preNotes' = notes
    /\ LET c == readiness_check(St, order) IN
       IF c.notReady
       THEN /\ SetSt(c.st)
            /\ res' = "NotReady"
            /\ early' = TRUE
            /\ woken' = FALSE
            /\ trace' = << >>
            /\ postDrain' = buffer
            /\ needReads' = 0
            /\ UNCHANGED << buffer, notes, appended, yielded >>
       ELSE LET d == drain_passes(c.st, order, notes)
                full == buffer \o d.evs
            IN  /\ early' = FALSE
                /\ trace' = d.steps
                /\ postDrain' = full
                /\ appended' = appended \o d.evs
                /\ notes' = << >>
                /\ IF full = << >>
                   THEN /\ SetSt(need_read(d.st, Udev))
                        /\ needReads' = 1
                        /\ res' = "NotReady"
                        /\ woken' = FALSE
                        /\ UNCHANGED << buffer, yielded >>
                   ELSE /\ SetSt(d.st)
                        /\ needReads' = 0
                        /\ res' = "Ready"
                        /\ woken' = TRUE
                        /\ buffer' = pop_front(full).rest
                        /\ yielded' = Append(yielded, pop_front(full).item)
    /\ UNCHANGED << phase, seeded, nNotes, nRaw, xin, xout >>

\* the table order is unspecified: any order may be the one iterated
PollAny == \E o \in Orders(OpenDevices(devices)) : Poll(o)

Next ==
    \/ \E e \in Enumerations : New(e)
    \/ NewFail
    \/ \E n \in Notifications : Notify(n)
    \/ \E d \in Devices, ev \in RawRecords : RawInput(d, ev)
    \/ Overrun(DeviceOrder[1])
    \/ SpuriousWake
    \/ PollAny

Spec == Init /\ [][Next]_vars

----------------------------------------------------------------------------
(* The translator on its own: map_device_event applied to two raw records   *)
(* of one device, one after the other, drawn from the bounded record set.   *)

TCodes == (0..MaxCode) \cup {KeyRecord(0).code}
            \cup {REL_CNT + c : c \in 0..MaxCode}
            \cup {CodeMod - REL_CNT + c : c \in 0..MaxCode}
            \cup {CodeMod - 1}
TValues == (-1)..MaxValue
TRecords == {InputEvent(ty, c, v) : ty \in EventTypes, c \in TCodes, v \in TValues}

\* the translator is handed a record read from device d
Translate(d, r) ==
    /\ Len(xin) < 2
    /\ \A i \in DOMAIN xin : xin[i].dev = d
    /\ xin' = Append(xin, [dev |-> d, rec |-> r])
    /\ xout' = Append(xout, map_device_event(d, r))
    /\ UNCHANGED streamVars

TNext == \E d \in Devices, r \in TRecords : Translate(d, r)

TSpec == Init /\ [][TNext]_vars

----------------------------------------------------------------------------
(* Properties *)

IsRead(s) == s.k = "read" /\ s.st # "Again"
IsNote(s) == s.k = "note"

\* C1: for every device D of the table and every button code c, a key record
\* (code c, value 1) read from D appends exactly RawButtonPress{D, c}, and a
\* key record (code c, value 0) appends exactly RawButtonRelease{D, c}.
C1_KeyValueToPressRelease ==
    \A i \in DOMAIN trace :
        (IsRead(trace[i]) /\ trace[i].ev.type_ = "EV_KEY") =>
            /\ trace[i].ev.value = 1 =>
                 trace[i].out = << RawButtonPress(trace[i].dev, trace[i].ev.code) >>
            /\ trace[i].ev.value = 0 =>
                 trace[i].out = << RawButtonRelease(trace[i].dev, trace[i].ev.code) >>

\* C2: an add notification for a DeviceID that is already in the Device
\* Table appends no DeviceAdded event, so that between two DeviceAdded{D}
\* pushed to the buffer there is always a DeviceRemoved{D}.
C2_ReAddAppendsNothing ==
    /\ \A i \in DOMAIN trace :
          (IsNote(trace[i]) /\ trace[i].note.action = "add"
              /\ trace[i].devBefore[trace[i].note.dev] # NoHandle)
            => trace[i].out = None
    /\ \A i, j \in DOMAIN appended :
          (i < j /\ appended[i] = appended[j] /\ appended[i].t = "DeviceAdded")
            => \E k \in (i + 1)..(j - 1) :
                  appended[k] = DeviceRemoved(appended[i].device)

\* C3: there are never two open (unreleased) handles for the same DeviceID;
\* a handle that is the table's entry has not been released, and every
\* handle that is no longer (or never became) a table entry has been
\* released exactly once.
OpenHandles(d) == {h \in DOMAIN owner : owner[h] = d /\ closes[h] = 0}
InTable(h) == \E d \in Devices : devices[d] = h
C3_HandleAccounting ==
    /\ \A d \in Devices : Cardinality(OpenHandles(d)) <= 1
    /\ \A d \in Devices : devices[d] # NoHandle =>
          (devices[d] \in DOMAIN owner /\ owner[devices[d]] = d)
    /\ \A h \in DOMAIN owner : closes[h] = IF InTable(h) THEN 0 ELSE 1

\* C3 happens: the latest poll removed an open device, releasing its
\* handle, after an add had replaced (and released) an earlier handle of
\* the same DeviceID
C3_Witness ==
    \E i \in DOMAIN trace :
        /\ IsNote(trace[i]) /\ trace[i].note.action = "remove"
        /\ trace[i].devBefore[trace[i].note.dev] # NoHandle
        /\ closes[trace[i].devBefore[trace[i].note.dev]] = 1
        /\ \E h \in DOMAIN owner :
              /\ h < trace[i].devBefore[trace[i].note.dev]
              /\ owner[h] = trace[i].note.dev
              /\ closes[h] = 1

Polled == res # "None"
SomeArmedSources == {Udev} \cup OpenDevices(devices)

\* C4 as stated: poll reports "not ready" if and only if, at that invocation,
\* the buffer is empty and neither the monitor nor any open device is
\* read-ready; never while the buffer holds an event; and the monitor's
\* readiness interest is then armed, by exactly one re-arm.
C4_NotReadyIffEmptyAndIdle ==
    Polled =>
        /\ (res = "NotReady") <=> (preEmpty /\ ~preReady)
        /\ res = "NotReady" => preEmpty
        /\ (res = "NotReady" /\ ~woken) => armed[Udev]
        /\ res = "NotReady" => needReads <= 1

\* C4 amended: poll reports "not ready" if and only if no source is
\* read-ready at the invocation (the return of the readiness check) or the
\* buffer is empty after both drain passes; it does so only when the buffer
\* was empty at the invocation, and always when the buffer was empty and no
\* source read-ready.  After the readiness-check return no need_read ran
\* (the check itself registered the task with the monitor); after the other
\* return need_read ran exactly once; either way the monitor is armed.
C4_NotReadyIffNothingToYield ==
    Polled =>
        /\ (res = "NotReady") <=> (~preReady \/ postDrain = << >>)
        /\ early <=> ~preReady
        /\ res = "NotReady" => preEmpty
        /\ (preEmpty /\ ~preReady) => res = "NotReady"
        /\ res = "NotReady" => needReads = (IF early THEN 0 ELSE 1)
        /\ res = "Ready" => needReads = 0
        /\ (res = "NotReady" /\ ~woken) => armed[Udev]

\* C4 happens: a poll found a source read-ready, drained it, had nothing to
\* yield, re-armed the monitor and reported "not ready"
C4_Witness ==
    /\ res = "NotReady" /\ ~early /\ preReady /\ preEmpty
    /\ needReads = 1 /\ armed[Udev] /\ ~woken
    /\ \E i \in DOMAIN trace : IsRead(trace[i])

\* C5: every time poll has reported "not ready", the task is registered
\* with the monitor and with every open device, so that a record that
\* becomes readable on an open device wakes the consumer: no record stays
\* readable on an open device while the consumer sleeps.
C5_RearmedWheneverNotReady ==
    /\ (res = "NotReady" /\ ~woken) => \A s \in SomeArmedSources : armed[s]
    /\ \A d \in OpenDevices(devices) : rawq[d] # << >> => woken

\* C6: the events yielded, followed by the events still buffered, are the
\* events appended, in the order they were appended (FIFO: nothing is
\* reordered, duplicated or dropped).
C6_Fifo == appended = yielded \o buffer

\* C6 happens: events of different passes were yielded and one still waits
C6_Witness ==
    /\ Len(yielded) >= 2 /\ buffer # << >>
    /\ yielded[1] # yielded[2]
    /\ \E i \in DOMAIN trace : trace[i].out # None

RECURSIVE StepEvents(_)
StepEvents(steps) ==
    IF steps = << >> THEN << >>
    ELSE Head(steps).out \o StepEvents(Tail(steps))

NoteSteps == SelectSeq(trace, IsNote)

\* C7: in a poll pass that gets past the readiness check, the events
\* appended are the events of the pass's reads followed by the events of
\* its notifications: no read comes after a notification, and the
\* notifications are handled in the order the monitor held them.
C7_DevicesBeforeMonitor ==
    (Polled /\ ~early) =>
        /\ \A i, j \in DOMAIN trace :
              (i < j /\ IsNote(trace[i])) => IsNote(trace[j])
        /\ [i \in DOMAIN NoteSteps |-> NoteSteps[i].note] = preNotes
        /\ Len(postDrain) >= Len(StepEvents(trace))
        /\ SubSeq(postDrain, Len(postDrain) - Len(StepEvents(trace)) + 1,
                  Len(postDrain)) = StepEvents(trace)

\* C7 happens: one pass read an event from a device and handled two
\* notifications that each produced an event
C7_Witness ==
    /\ Polled /\ ~early
    /\ \E i \in DOMAIN trace : IsRead(trace[i]) /\ trace[i].out # None
    /\ Len(NoteSteps) = 2
    /\ NoteSteps[1].out # None /\ NoteSteps[2].out # None
    /\ NoteSteps[1].out # NoteSteps[2].out

NumAdded == Cardinality({i \in DOMAIN appended : appended[i].t = "DeviceAdded"})

\* C8: every device the initial enumeration returns with a node that opens
\* is in the Device Table before the first poll handles a notification; the
\* seeding appends no event (a DeviceAdded is appended only for a handled
\* notification); and a key record (value 0 or 1) read from a seeded device
\* appends one RawButtonPress or RawButtonRelease of that device and code.
C8_SilentSeeding ==
    /\ (phase = "live" /\ ~Polled) =>
          /\ \A d \in seeded : devices[d] # NoHandle
          /\ buffer = << >> /\ appended = << >>
    /\ NumAdded <= nNotes - Len(notes)
    /\ \A i \in DOMAIN trace :
          (IsRead(trace[i]) /\ trace[i].dev \in seeded
              /\ trace[i].ev.type_ = "EV_KEY" /\ trace[i].ev.value \in {0, 1})
            => /\ Len(trace[i].out) = 1
               /\ trace[i].out[1].t \in {"RawButtonPress", "RawButtonRelease"}
               /\ trace[i].out[1].device = trace[i].dev
               /\ trace[i].out[1].button = trace[i].ev.code

\* C8 happens: a seeded device's key event was yielded and no DeviceAdded
\* was ever appended
C8_Witness ==
    /\ seeded # {}
    /\ NumAdded = 0
    /\ \E i \in DOMAIN yielded :
          /\ yielded[i].t \in {"RawButtonPress", "RawButtonRelease"}
          /\ yielded[i].device \in seeded

RemoveOfAbsent(s) ==
    IsNote(s) /\ s.note.action = "remove" /\ s.devBefore[s.note.dev] = NoHandle

\* C9: a remove notification for a DeviceID that is not in the Device Table
\* appends no event, leaves the table unchanged and releases no handle, and
\* the poll that handles it returns an item or "not ready", never an error.
C9_RemoveAbsentNoOp ==
    \A i \in DOMAIN trace :
        RemoveOfAbsent(trace[i]) =>
            /\ trace[i].out = None
            /\ trace[i].devAfter = trace[i].devBefore
            /\ trace[i].closesAfter = trace[i].closesBefore
            /\ res \in {"NotReady", "Ready"}

\* C9 happens: the latest poll handled only a remove of an unknown device
C9_Witness ==
    /\ Len(trace) >= 1
    /\ RemoveOfAbsent(trace[Len(trace)])
    /\ postDrain = << >> /\ res = "NotReady"

IsAxis(i) == i \in DOMAIN xin /\ xin[i].rec.type_ \in {"EV_ABS", "EV_REL"}
Axis(i) == xout[i][1].axis
Code(i) == xin[i].rec.code
Class(i) == xin[i].rec.type_

\* C10 as stated: for all raw codes, an absolute-axis record and a
\* relative-axis record never yield the same AxisID, and two records of the
\* same class yield the same AxisID only if their codes are equal.
C10_AxisIdentityInjective ==
    (IsAxis(1) /\ IsAxis(2)) =>
        /\ Class(1) # Class(2) => Axis(1) # Axis(2)
        /\ (Class(1) = Class(2) /\ Axis(1) = Axis(2)) => Code(1) = Code(2)

InAxisRange(i) ==
    IF Class(i) = "EV_REL" THEN Code(i) < REL_CNT
    ELSE Code(i) < CodeMod - REL_CNT

\* C10 amended: two records of the same class yield the same AxisID only if
\* their codes are equal (for all codes); an absolute-axis record and a
\* relative-axis record never yield the same AxisID provided the relative
\* code is below REL_CNT and REL_CNT + the absolute code does not overflow
\* the code's 16 bits; and the identities are REL_CNT + code and code.
C10_AxisIdentityInjectiveInRange ==
    (IsAxis(1) /\ IsAxis(2)) =>
        /\ (Class(1) # Class(2) /\ InAxisRange(1) /\ InAxisRange(2))
              => Axis(1) # Axis(2)
        /\ (Class(1) = Class(2) /\ Axis(1) = Axis(2)) => Code(1) = Code(2)
        /\ \A i \in 1..2 :
              /\ xout[i][1].t = "RawMotion"
              /\ xout[i][1].device = xin[i].dev
              /\ xout[i][1].value = xin[i].rec.value
              /\ Class(i) = "EV_REL" => Axis(i) = Code(i)
              /\ (Class(i) = "EV_ABS" /\ InAxisRange(i))
                    => Axis(i) = REL_CNT + Code(i)

\* C10 happens: an absolute and a relative record with the same code were
\* translated to different axis identities
C10_Witness ==
    /\ IsAxis(1) /\ IsAxis(2)
    /\ Class(1) = "EV_ABS" /\ Class(2) = "EV_REL"
    /\ Code(1) = Code(2)
    /\ Axis(1) # Axis(2)

\* C11: a key record with value 2 (auto-repeat) yields no event, for every
\* device and code; and every raw record yields nothing or exactly one
\* event, which carries the DeviceID of the device the record was read from.
C11_RepeatSuppressedOneEventAtMost ==
    \A i \in DOMAIN xin :
        /\ (xin[i].rec.type_ = "EV_KEY" /\ xin[i].rec.value = 2)
              => xout[i] = None
        /\ Len(xout[i]) <= 1
        /\ xout[i] # None => xout[i][1].device = xin[i].dev

\* C11 happens: a key repeat was translated to nothing, and another record
\* of the same device to one event
C11_Witness ==
    /\ Len(xin) = 2
    /\ xin[1].rec.type_ = "EV_KEY" /\ xin[1].rec.value = 2
    /\ xin[1].rec.code > 0
    /\ xout[1] = None
    /\ Len(xout[2]) = 1 /\ xout[2][1].device = xin[2].dev

\* C12: an add notification for a DeviceID that is already in the Device
\* Table opens nothing and leaves the table and every handle as they were:
\* the entry holds the same handle, which is neither released nor replaced,
\* whether or not the node could be opened.
C12_ReAddKeepsHandle ==
    \A i \in DOMAIN trace :
        (IsNote(trace[i]) /\ trace[i].note.action = "add"
            /\ trace[i].devBefore[trace[i].note.dev] # NoHandle)
          => /\ trace[i].devAfter = trace[i].devBefore
             /\ trace[i].closesAfter = trace[i].closesBefore

ReadsOf(d) == SelectSeq(trace, LAMBDA s : s.k = "read" /\ s.dev = d)

\* C13: in a drain pass the first read of a handle is in normal mode; the
\* read after one that reports the resync condition is in resynchronization
\* mode; and once resynchronization is complete the mode is normal again in
\* the same pass, so the read that ends the drain of a handle (the one that
\* reports no more data) is a normal-mode read.
C13_ResyncThenNormal ==
    (Polled /\ ~early) =>
        \A d \in Devices :
            LET rs == ReadsOf(d) IN
            /\ rs # << >> => rs[1].flag = "normal"
            /\ \A i \in DOMAIN rs :
                  /\ (rs[i].st = "Sync" /\ i < Len(rs))
                        => rs[i + 1].flag = "sync"
                  /\ rs[i].st = "Again" => rs[i].flag = "normal"

RemoveOfPresent(s) ==
    IsNote(s) /\ s.note.action = "remove" /\ s.devBefore[s.note.dev] # NoHandle

\* between positions i and j of q there is a DeviceAdded of device d
AddedBetween(q, i, j, d) == \E k \in (i + 1)..(j - 1) : q[k] = DeviceAdded(d)

\* C14: a remove notification for a DeviceID that is in the Device Table
\* removes that entry and no other, releases its handle (once), and appends
\* exactly one DeviceRemoved of that DeviceID; and in the sequence of yielded
\* items (and of appended events) two DeviceRemoved of one DeviceID always
\* have a DeviceAdded of that DeviceID between them.
C14_RemoveReleasesAndReportsOnce ==
    /\ \A i \in DOMAIN trace :
          RemoveOfPresent(trace[i]) =>
              LET d == trace[i].note.dev
                  h == trace[i].devBefore[d]
              IN  /\ trace[i].devAfter =
                        [trace[i].devBefore EXCEPT ![d] = NoHandle]
                  /\ trace[i].closesBefore[h] = 0
                  /\ trace[i].closesAfter =
                        [trace[i].closesBefore EXCEPT ![h] = 1]
                  /\ trace[i].out = Some(DeviceRemoved(d))
    /\ \A i, j \in DOMAIN appended :
          (i < j /\ appended[i].t = "DeviceRemoved" /\ appended[j] = appended[i])
            => AddedBetween(appended, i, j, appended[i].device)
    /\ \A i, j \in DOMAIN yielded :
          (i < j /\ yielded[i].t = "DeviceRemoved" /\ yielded[j] = yielded[i])
            => AddedBetween(yielded, i, j, yielded[i].device)

\* C14 happens: a device was removed, added again and removed again, all
\* three events were yielded, and the latest poll handled the second remove
C14_Witness ==
    /\ \E d \in Devices :
          yielded = << DeviceRemoved(d), DeviceAdded(d), DeviceRemoved(d) >>
    /\ \E i \in DOMAIN trace : RemoveOfPresent(trace[i])

IsRaw(e) == e.t \in {"RawButtonPress", "RawButtonRelease", "RawMotion"}

\* C17: in the sequence of yielded items (and of appended events), a raw
\* event of a DeviceID that comes after a DeviceRemoved of that DeviceID has a
\* DeviceAdded of that DeviceID between the two.
C17_NoRawAfterRemoved ==
    /\ \A i, j \in DOMAIN appended :
          (i < j /\ appended[i].t = "DeviceRemoved" /\ IsRaw(appended[j])
              /\ appended[j].device = appended[i].device)
            => AddedBetween(appended, i, j, appended[i].device)
    /\ \A i, j \in DOMAIN yielded :
          (i < j /\ yielded[i].t = "DeviceRemoved" /\ IsRaw(yielded[j])
              /\ yielded[j].device = yielded[i].device)
            => AddedBetween(yielded, i, j, yielded[i].device)

\* C17 happens: a device was removed and added again, and then a record
\* read from it was yielded
C17_Witness ==
    \E d \in Devices :
        /\ Len(yielded) = 3
        /\ yielded[1] = DeviceRemoved(d)
        /\ yielded[2] = DeviceAdded(d)
        /\ IsRaw(yielded[3]) /\ yielded[3].device = d

FailedAdd(s) == IsNote(s) /\ s.note.action = "add" /\ s.note.node # "ok"

\* C15: an add whose device has no node, or whose node cannot be opened,
\* decoded or registered, appends no event and leaves the Device Table as it
\* was; every descriptor opened during the attempt is closed (once) by the
\* time the attempt returns, and no other handle is touched; the poll that
\* handled it returns an item or "not ready".  After construction, before
\* the first poll, exactly the enumerated devices whose open succeeded are
\* in the table, the buffer is empty, and the Stream exists.
C15_FailedOpenLeavesNoTrace ==
    /\ \A i \in DOMAIN trace :
          FailedAdd(trace[i]) =>
              /\ trace[i].out = None
              /\ trace[i].devAfter = trace[i].devBefore
              /\ Len(trace[i].closesAfter) >= Len(trace[i].closesBefore)
              /\ \A h \in DOMAIN trace[i].closesAfter :
                    trace[i].closesAfter[h] =
                        IF h \in DOMAIN trace[i].closesBefore
                        THEN trace[i].closesBefore[h] ELSE 1
              /\ res \in {"NotReady", "Ready"}
    /\ (phase = "live" /\ ~Polled) =>
          /\ OpenDevices(devices) = seeded
          /\ buffer = << >> /\ appended = << >>
          /\ \A h \in DOMAIN owner : closes[h] = IF InTable(h) THEN 0 ELSE 1

\* C15 happens: the latest poll handled an add whose node opened but whose
\* decoder or registration failed, for a device that was not in the table
C15_Witness ==
    /\ Len(trace) >= 1
    /\ FailedAdd(trace[Len(trace)])
    /\ trace[Len(trace)].note.node \in {"evdevfail", "regfail"}
    /\ Len(trace[Len(trace)].closesAfter) > Len(trace[Len(trace)].closesBefore)
    /\ devices[trace[Len(trace)].note.dev] = NoHandle
    /\ res = "NotReady"

AnySourceReady == \E s \in {Udev} \cup OpenDevices(devices) : ready[s]

\* C16: a poll invoked while neither the monitor nor any open device is
\* read-ready reports "not ready" at the readiness check: it reads no
\* device, receives no notification, calls no re-arm, and leaves the Event
\* Buffer, the Device Table, every handle and all pending source data as
\* they were.
C16_IdlePollChangesNothing ==
    [][(PollAny /\ ~AnySourceReady) =>
          /\ res' = "NotReady"
          /\ early' /\ trace' = << >> /\ needReads' = 0
          /\ UNCHANGED << buffer, devices, rawq, notes, ready, owner, closes,
                          appended, yielded >>]_vars

\* C16 happens: the latest poll found an open device and the monitor both
\* not ready and returned at the readiness check
C16_Witness ==
    /\ Polled /\ early /\ ~preReady
    /\ res = "NotReady"
    /\ OpenDevices(devices) # {}
    /\ ~woken

\* C18: every poll result is "not ready" or one item; a poll that yields
\* an item yields the head of the buffer as it stood after the drain passes
\* and leaves exactly the rest of it; a poll that reports "not ready"
\* leaves the (empty) buffer as it was.
C18_YieldsHeadOrNotReady ==
    Polled =>
        /\ res \in {"NotReady", "Ready"}
        /\ res = "Ready" =>
              /\ postDrain # << >> /\ yielded # << >>
              /\ yielded[Len(yielded)] = Head(postDrain)
              /\ buffer = Tail(postDrain)
        /\ res = "NotReady" =>
              /\ postDrain = << >>
              /\ buffer = postDrain

\* C18 happens: a poll yielded one item and left two more in the buffer
C18_Witness ==
    /\ res = "Ready"
    /\ Len(postDrain) = 3
    /\ Len(buffer) = 2

\* C19: in a drain pass every open device is read until its first "no more
\* data" and not again: the reads of one handle end with the only one that
\* reports no more data; and the monitor pass handles exactly the
\* notifications pending at the invocation, each once.  So the steps of a
\* pass are bounded by what was pending: no more record reads than items
\* the kernel ever queued (an overrun queues two), and one "no more data"
\* per handle.
C19_DrainsEndAtFirstEmpty ==
    /\ (Polled /\ ~early) =>
          /\ \A d \in Devices :
                LET rs == ReadsOf(d) IN
                rs # << >> =>
                    /\ rs[Len(rs)].st = "Again"
                    /\ \A i \in 1..(Len(rs) - 1) : rs[i].st # "Again"
          /\ Len(NoteSteps) = Len(preNotes)
          /\ Len(SelectSeq(trace, IsRead)) <= 2 * nRaw
          /\ Len(trace) <= 2 * nRaw + Cardinality(Devices) + nNotes

\* C19 happens: one pass read two records from a device before its "no more
\* data", read another device, and handled a notification
C19_Witness ==
    /\ Polled /\ ~early
    /\ \E d \in Devices : Len(ReadsOf(d)) = 3
    /\ \A d \in Devices : ReadsOf(d) # << >>
    /\ Len(NoteSteps) >= 1

====
